---- MODULE Spec2Model ----
(***************************************************************************)
(* Model of internal/service/s3control/object_lambda_access_point.go:      *)
(* the resource-ID codec, the expand/flatten mappers and the CRUD handlers *)
(* of the S3 Object Lambda Access Point resource.                          *)
(*                                                                         *)
(* Representation.  A Go string is a sequence of characters (<<>> is "").  *)
(* A Go pointer, an optional map key and a nil-able interface value are a  *)
(* sequence of length 0 (nil / key missing) or 1 (<<v>>).                  *)
(***************************************************************************)
EXTENDS Integers, Sequences, FiniteSets, TLC

VARIABLES
    fn,      \* pure-function specifications: the function applied last
    arg,     \* ... its argument
    ret,     \* ... its result
    meta,    \* provider configuration (conns.AWSClient): [AccountID, Partition]
    pre,     \* the schema.ResourceData the last handler was called with
    d,       \* the schema.ResourceData the last handler left: [id, isNew, attrs]
    lastOp,  \* the CRUD handler that ran last
    result,  \* the error the last handler returned (NoError for nil)
    calls    \* the external calls (with their responses) and SetId steps of the
             \* last handler, in program order

vars == <<fn, arg, ret, meta, pre, d, lastOp, result, calls>>

pureVars == <<fn, arg, ret>>
crudVars == <<meta, pre, d, lastOp, result, calls>>

(***************************************************************************)
(* Bounds                                                                  *)
(***************************************************************************)
MaxLen == 2        \* longest identifier component drawn for the codec
MaxIdLen == 4      \* longest identifier string handed to the parser

Char == {"1", "a", ":"}

RECURSIVE StrsOfLen(_)
StrsOfLen(n) ==
    IF n = 0 THEN {<<>>}
    ELSE {Append(s, c) : s \in StrsOfLen(n - 1), c \in Char}

StrsUpTo(n) == UNION {StrsOfLen(k) : k \in 0..n}

\* A Go error: <<>> is nil, otherwise the message followed by the wrapped cause
NoError == <<>>

(***************************************************************************)
(* Resource-ID codec                                                       *)
(***************************************************************************)
objectLambdaAccessPointResourceIDSeparator == ":"

\* strings.Join(parts, sep) for a one-character separator
RECURSIVE Join(_, _)
Join(parts, sep) ==
    IF Len(parts) = 0 THEN <<>>
    ELSE IF Len(parts) = 1 THEN parts[1]
    ELSE parts[1] \o <<sep>> \o Join(Tail(parts), sep)

\* strings.Split(s, sep) for a one-character separator: always at least one
\* part, one more part than there are separators in s
RECURSIVE Split(_, _)
Split(s, sep) ==
    IF \A i \in 1..Len(s) : s[i] # sep THEN <<s>>
    ELSE LET i == CHOOSE k \in 1..Len(s) :
                      s[k] = sep /\ \A j \in 1..(k - 1) : s[j] # sep
         IN  <<SubSeq(s, 1, i - 1)>> \o Split(SubSeq(s, i + 1, Len(s)), sep)

CreateResourceID_Swapped(accountID, accessPointName) ==
    Join(<<accessPointName, accountID>>, objectLambdaAccessPointResourceIDSeparator)

ObjectLambdaAccessPointCreateResourceID(accountID, accessPointName) ==
    Join(<<accountID, accessPointName>>, objectLambdaAccessPointResourceIDSeparator)

ParseResourceID_NoNameCheck(id) ==
    LET parts == Split(id, objectLambdaAccessPointResourceIDSeparator)
    IN  IF Len(parts) = 2 /\ parts[1] # <<>>
        THEN [accountID |-> parts[1], name |-> parts[2], err |-> NoError]
        ELSE [accountID |-> <<>>, name |-> <<>>, err |-> <<"unexpected format for ID, expected account-id:access-point-name">>]

\* returns (accountID, name, error)
ObjectLambdaAccessPointParseResourceID(id) ==
    LET parts == Split(id, objectLambdaAccessPointResourceIDSeparator)
    IN  IF Len(parts) = 2 /\ parts[1] # <<>> /\ parts[2] # <<>>
        THEN [accountID |-> parts[1], name |-> parts[2], err |-> NoError]
        ELSE [accountID |-> <<>>, name |-> <<>>, err |-> <<"unexpected format for ID, expected account-id:access-point-name">>]

(***************************************************************************)
(* Expand: flat configuration -> API request structures                    *)
(*                                                                         *)
(* A tfMap (map[string]interface{}) is a record with one field per schema  *)
(* key; the field is <<>> when the key is missing and <<v>> when present.  *)
(* A map argument or list element is <<>> (nil) or <<tfMap>>.  An API      *)
(* struct pointer is Nil or <<record>>; each pointer field of the record   *)
(* is again Nil or <<v>>.  A run-time panic (a failed type assertion) is   *)
(* the value Panic.                                                        *)
(***************************************************************************)
Nil == <<>>
Panic == <<[panic |-> TRUE]>>

Opt(S) == {<<>>} \cup {<<x>> : x \in S}

MaxSetLen == 1     \* most elements of the transformation_configuration set

MaxItems == 1

ExpandStrs == {<<>>, <<"a">>}
AllowedFeatureValues == {"GetObject-Range", "GetObject-PartNumber"}
ActionValues == {"GetObject"}

SeqsUpTo(S, n) == UNION {[1..k -> S] : k \in 0..n}

AwsLambdaMaps == [function_arn : Opt(ExpandStrs), function_payload : Opt(ExpandStrs)]
ContentTransformationMaps == [aws_lambda : Opt(SeqsUpTo(Opt(AwsLambdaMaps), MaxItems))]
TransformationConfigurationMaps ==
    [actions : Opt(SUBSET ActionValues),
     content_transformation : Opt(SeqsUpTo(Opt(ContentTransformationMaps), MaxItems))]
ConfigurationMaps ==
    [allowed_features : Opt(SUBSET AllowedFeatureValues),
     cloud_watch_metrics_enabled : Opt(BOOLEAN),
     supporting_access_point : Opt(ExpandStrs),
     transformation_configuration :
         Opt(SeqsUpTo(Opt(TransformationConfigurationMaps), MaxSetLen))]

\* flex.ExpandStringSet: the elements of the set that are not ""
ExpandStringSet(v) == {x \in v : x # ""}

expandAwsLambdaTransformation(tfMap) ==
    IF tfMap = Nil THEN Nil
    ELSE LET m == tfMap[1]
         IN  <<[FunctionArn |->
                    IF m.function_arn # <<>> /\ m.function_arn[1] # <<>>
                    THEN <<m.function_arn[1]>> ELSE Nil,
                FunctionPayload |->
                    IF m.function_payload # <<>> /\ m.function_payload[1] # <<>>
                    THEN <<m.function_payload[1]>> ELSE Nil]>>

\* v[0].(map[string]interface{}) panics when v[0] is nil
expandObjectLambdaContentTransformation(tfMap) ==
    IF tfMap = Nil THEN Nil
    ELSE LET m == tfMap[1]
         IN  IF m.aws_lambda # <<>> /\ Len(m.aws_lambda[1]) > 0
             THEN LET v == m.aws_lambda[1]
                      sub == IF v[1] = Nil THEN Panic ELSE expandAwsLambdaTransformation(v[1])
                  IN  IF sub = Panic THEN Panic ELSE <<[AwsLambda |-> sub]>>
             ELSE <<[AwsLambda |-> Nil]>>

expandObjectLambdaTransformationConfiguration(tfMap) ==
    IF tfMap = Nil THEN Nil
    ELSE LET m == tfMap[1]
             actions == IF m.actions # <<>> /\ Cardinality(m.actions[1]) > 0
                        THEN <<ExpandStringSet(m.actions[1])>> ELSE Nil
         IN  IF m.content_transformation # <<>> /\ Len(m.content_transformation[1]) > 0
             THEN LET v == m.content_transformation[1]
                      sub == IF v[1] = Nil THEN Panic
                             ELSE expandObjectLambdaContentTransformation(v[1])
                  IN  IF sub = Panic THEN Panic
                      ELSE <<[Actions |-> actions, ContentTransformation |-> sub]>>
             ELSE <<[Actions |-> actions, ContentTransformation |-> Nil]>>

\* the slice of API objects: elements that are no map are skipped; the result
\* is a sequence of records (a nil slice is <<>>)
RECURSIVE expandObjectLambdaTransformationConfigurations(_)
expandObjectLambdaTransformationConfigurations(tfList) ==
    IF Len(tfList) = 0 THEN <<>>
    ELSE LET rest == expandObjectLambdaTransformationConfigurations(Tail(tfList))
             apiObject == expandObjectLambdaTransformationConfiguration(Head(tfList))
         IN  IF Head(tfList) = Nil THEN rest
             ELSE IF apiObject = Panic \/ rest = Panic THEN Panic
             ELSE apiObject \o rest

expandObjectLambdaConfiguration(tfMap) ==
    IF tfMap = Nil THEN Nil
    ELSE LET m == tfMap[1]
             tcs == IF m.transformation_configuration # <<>>
                        /\ Len(m.transformation_configuration[1]) > 0
                    THEN expandObjectLambdaTransformationConfigurations(
                             m.transformation_configuration[1])
                    ELSE <<>>
         IN  IF tcs = Panic THEN Panic
             ELSE <<[AllowedFeatures |->
                        IF m.allowed_features # <<>> /\ Cardinality(m.allowed_features[1]) > 0
                        THEN <<ExpandStringSet(m.allowed_features[1])>> ELSE Nil,
                     CloudWatchMetricsEnabled |->
                        IF m.cloud_watch_metrics_enabled # <<>> /\ m.cloud_watch_metrics_enabled[1]
                        THEN <<m.cloud_watch_metrics_enabled[1]>> ELSE Nil,
                     SupportingAccessPoint |->
                        IF m.supporting_access_point # <<>> /\ m.supporting_access_point[1] # <<>>
                        THEN <<m.supporting_access_point[1]>> ELSE Nil,
                     TransformationConfigurations |-> tcs]>>

(***************************************************************************)
(* VPC and public-access-block configuration.  A []interface{} is          *)
(* [isNil, elems]: len() is Len(elems), and a nil slice has no elements.   *)
(***************************************************************************)
NilSlice == [isNil |-> TRUE, elems |-> <<>>]
Slice(elems) == [isNil |-> FALSE, elems |-> elems]

VpcMaps == [vpc_id : Opt(ExpandStrs)]
PublicAccessBlockMaps ==
    [block_public_acls : Opt(BOOLEAN), block_public_policy : Opt(BOOLEAN),
     ignore_public_acls : Opt(BOOLEAN), restrict_public_buckets : Opt(BOOLEAN)]

SlicesOf(S) == {NilSlice} \cup {Slice(e) : e \in SeqsUpTo(Opt(S), MaxItems)}

\* mConfig["vpc_id"].(string) panics when the key is missing
expandS3ObjectLambdaAccessPointVpcConfiguration(vConfig) ==
    IF Len(vConfig.elems) = 0 \/ vConfig.elems[1] = Nil THEN Nil
    ELSE LET mConfig == vConfig.elems[1][1]
         IN  IF mConfig.vpc_id = <<>> THEN Panic
             ELSE <<[VpcId |-> <<mConfig.vpc_id[1]>>]>>

\* aws.StringValue: "" for a nil pointer
StringValue(p) == IF p = Nil THEN <<>> ELSE p[1]

\* aws.BoolValue: false for a nil pointer
BoolValue(p) == IF p = Nil THEN FALSE ELSE p[1]

flattenVpcConfiguration_NilForNil(config) ==
    IF config = Nil THEN NilSlice
    ELSE Slice(<< <<[vpc_id |-> <<StringValue(config[1].VpcId)>>]>> >>)

flattenS3ObjectLambdaAccessPointVpcConfiguration(config) ==
    IF config = Nil THEN Slice(<<>>)
    ELSE Slice(<< <<[vpc_id |-> <<StringValue(config[1].VpcId)>>]>> >>)

expandS3ObjectLambdaAccessPointPublicAccessBlockConfiguration(vConfig) ==
    IF Len(vConfig.elems) = 0 \/ vConfig.elems[1] = Nil THEN Nil
    ELSE LET mConfig == vConfig.elems[1][1]
         IN  IF \/ mConfig.block_public_acls = <<>>
                \/ mConfig.block_public_policy = <<>>
                \/ mConfig.ignore_public_acls = <<>>
                \/ mConfig.restrict_public_buckets = <<>>
             THEN Panic
             ELSE <<[BlockPublicAcls |-> <<mConfig.block_public_acls[1]>>,
                     BlockPublicPolicy |-> <<mConfig.block_public_policy[1]>>,
                     IgnorePublicAcls |-> <<mConfig.ignore_public_acls[1]>>,
                     RestrictPublicBuckets |-> <<mConfig.restrict_public_buckets[1]>>]>>

flattenS3ObjectLambdaAccessPointPublicAccessBlockConfiguration(config) ==
    IF config = Nil THEN Slice(<<>>)
    ELSE Slice(<< <<[block_public_acls |-> <<BoolValue(config[1].BlockPublicAcls)>>,
                     block_public_policy |-> <<BoolValue(config[1].BlockPublicPolicy)>>,
                     ignore_public_acls |-> <<BoolValue(config[1].IgnorePublicAcls)>>,
                     restrict_public_buckets |->
                         <<BoolValue(config[1].RestrictPublicBuckets)>>]>> >>)

(***************************************************************************)
(* Flatten of the Object Lambda configuration (section 4.3 of the design:  *)
(* a nil structure flattens to an empty container, a present field to its  *)
(* flat representation, recursion mirrors Expand).  The source holds no    *)
(* such function.                                                          *)
(***************************************************************************)
flattenAwsLambdaTransformation(apiObject) ==
    IF apiObject = Nil THEN <<>>
    ELSE << <<[function_arn |-> <<StringValue(apiObject[1].FunctionArn)>>,
               function_payload |-> <<StringValue(apiObject[1].FunctionPayload)>>]>> >>

flattenObjectLambdaContentTransformation(apiObject) ==
    IF apiObject = Nil THEN <<>>
    ELSE << <<[aws_lambda |-> <<flattenAwsLambdaTransformation(apiObject[1].AwsLambda)>>]>> >>

flattenStringSet(p) == IF p = Nil THEN {} ELSE p[1]

flattenObjectLambdaTransformationConfigurations(apiObjects) ==
    [i \in 1..Len(apiObjects) |->
        <<[actions |-> <<flattenStringSet(apiObjects[i].Actions)>>,
           content_transformation |->
               <<flattenObjectLambdaContentTransformation(
                     apiObjects[i].ContentTransformation)>>]>>]

flattenObjectLambdaConfiguration(apiObject) ==
    IF apiObject = Nil THEN <<>>
    ELSE << <<[allowed_features |-> <<flattenStringSet(apiObject[1].AllowedFeatures)>>,
               cloud_watch_metrics_enabled |->
                   <<BoolValue(apiObject[1].CloudWatchMetricsEnabled)>>,
               supporting_access_point |->
                   <<StringValue(apiObject[1].SupportingAccessPoint)>>,
               transformation_configuration |->
                   <<flattenObjectLambdaTransformationConfigurations(
                         apiObject[1].TransformationConfigurations)>>]>> >>

(***************************************************************************)
(* State of the CRUD handlers while a pure function is being exercised     *)
(***************************************************************************)
NoAttrs == [account_id |-> <<>>, arn |-> <<>>, name |-> <<>>, configuration |-> <<>>]
NoResourceData == [id |-> <<>>, isNew |-> FALSE, attrs |-> NoAttrs]

CrudIdle ==
    /\ meta = [AccountID |-> <<"1", "1">>, Partition |-> <<"aws">>]
    /\ pre = NoResourceData
    /\ d = NoResourceData
    /\ lastOp = "none"
    /\ result = NoError
    /\ calls = <<>>

(***************************************************************************)
(* SpecCodec: the codec applied to bounded inputs                          *)
(***************************************************************************)
InitPure ==
    /\ fn = "none"
    /\ arg = <<>>
    /\ ret = <<>>
    /\ CrudIdle

ApplyCreateResourceID ==
    /\ fn = "none"
    /\ \E accountID \in StrsUpTo(MaxLen), accessPointName \in StrsUpTo(MaxLen) :
        /\ fn' = "CreateResourceID"
        /\ arg' = <<accountID, accessPointName>>
        /\ ret' = ObjectLambdaAccessPointCreateResourceID(accountID, accessPointName)
        /\ UNCHANGED crudVars

ApplyParseResourceID ==
    /\ fn = "none"
    /\ \E id \in StrsUpTo(MaxIdLen) :
        /\ fn' = "ParseResourceID"
        /\ arg' = id
        /\ ret' = ObjectLambdaAccessPointParseResourceID(id)
        /\ UNCHANGED crudVars

\* Parse applied to the identifier CreateResourceID built last
ApplyParseOfCreated ==
    /\ fn = "CreateResourceID"
    /\ fn' = "ParseOfCreated"
    /\ arg' = arg
    /\ ret' = ObjectLambdaAccessPointParseResourceID(ret)
    /\ UNCHANGED crudVars

NextCodec == ApplyCreateResourceID \/ ApplyParseResourceID \/ ApplyParseOfCreated

SpecCodec == InitPure /\ [][NextCodec]_vars

(***************************************************************************)
(* Codec claims                                                            *)
(***************************************************************************)
HasSeparator(s) == \E i \in 1..Len(s) : s[i] = objectLambdaAccessPointResourceIDSeparator

\* C1 as stated: for every pair of non-empty strings, parsing the created
\* identifier returns exactly the pair, with no error.
C1_RoundTripAllNonEmpty ==
    (fn = "ParseOfCreated" /\ arg[1] # <<>> /\ arg[2] # <<>>)
        => ret = [accountID |-> arg[1], name |-> arg[2], err |-> NoError]

\* C1 amended: for every pair of non-empty strings neither of which contains
\* the separator ':', parsing the created identifier returns exactly the pair,
\* with no error.
C1_RoundTripSeparatorFree ==
    (fn = "ParseOfCreated" /\ arg[1] # <<>> /\ arg[2] # <<>>
        /\ ~HasSeparator(arg[1]) /\ ~HasSeparator(arg[2]))
        => ret = [accountID |-> arg[1], name |-> arg[2], err |-> NoError]

C1_Witness ==
    /\ fn = "ParseOfCreated"
    /\ arg = << <<"1", "1">>, <<"a">> >>
    /\ ret.err = NoError

SeparatorCount(s) ==
    Cardinality({i \in 1..Len(s) : s[i] = objectLambdaAccessPointResourceIDSeparator})

\* exactly one ':' that is neither the first nor the last character
WellFormedID(s) ==
    /\ SeparatorCount(s) = 1
    /\ s[1] # objectLambdaAccessPointResourceIDSeparator
    /\ s[Len(s)] # objectLambdaAccessPointResourceIDSeparator

\* C2: the parser returns an error and empty components for every identifier
\* that does not split on ':' into exactly two non-empty parts (empty string,
\* no separator, two or more separators, an empty component), and no error
\* for every other identifier.
C2_ParseErrorIffMalformed ==
    fn = "ParseResourceID" =>
        /\ (ret.err # NoError) <=> ~WellFormedID(arg)
        /\ (ret.err # NoError) => (ret.accountID = <<>> /\ ret.name = <<>>)
        /\ (ret.err = NoError) =>
               arg = ret.accountID \o <<objectLambdaAccessPointResourceIDSeparator>> \o ret.name

C2_Witness ==
    /\ fn = "ParseResourceID"
    /\ arg = <<"a", ":">>
    /\ ret.err # NoError

(***************************************************************************)
(* SpecExpand: the expanders and flatteners applied to bounded inputs      *)
(***************************************************************************)
VpcApiObjects == Opt([VpcId : Opt(ExpandStrs)])
PublicAccessBlockApiObjects ==
    Opt([BlockPublicAcls : Opt(BOOLEAN), BlockPublicPolicy : Opt(BOOLEAN),
         IgnorePublicAcls : Opt(BOOLEAN), RestrictPublicBuckets : Opt(BOOLEAN)])

ApplyExpandConfiguration ==
    /\ fn = "none"
    /\ \E tfMap \in Opt(ConfigurationMaps) :
        /\ fn' = "expandObjectLambdaConfiguration"
        /\ arg' = tfMap
        /\ ret' = expandObjectLambdaConfiguration(tfMap)
        /\ UNCHANGED crudVars

ApplyExpandTransformationConfiguration ==
    /\ fn = "none"
    /\ \E tfMap \in Opt(TransformationConfigurationMaps) :
        /\ fn' = "expandObjectLambdaTransformationConfiguration"
        /\ arg' = tfMap
        /\ ret' = expandObjectLambdaTransformationConfiguration(tfMap)
        /\ UNCHANGED crudVars

ApplyExpandContentTransformation ==
    /\ fn = "none"
    /\ \E tfMap \in Opt(ContentTransformationMaps) :
        /\ fn' = "expandObjectLambdaContentTransformation"
        /\ arg' = tfMap
        /\ ret' = expandObjectLambdaContentTransformation(tfMap)
        /\ UNCHANGED crudVars

ApplyExpandAwsLambdaTransformation ==
    /\ fn = "none"
    /\ \E tfMap \in Opt(AwsLambdaMaps) :
        /\ fn' = "expandAwsLambdaTransformation"
        /\ arg' = tfMap
        /\ ret' = expandAwsLambdaTransformation(tfMap)
        /\ UNCHANGED crudVars

ApplyExpandVpc ==
    /\ fn = "none"
    /\ \E vConfig \in SlicesOf(VpcMaps) :
        /\ fn' = "expandS3ObjectLambdaAccessPointVpcConfiguration"
        /\ arg' = vConfig
        /\ ret' = expandS3ObjectLambdaAccessPointVpcConfiguration(vConfig)
        /\ UNCHANGED crudVars

ApplyExpandPublicAccessBlock ==
    /\ fn = "none"
    /\ \E vConfig \in SlicesOf(PublicAccessBlockMaps) :
        /\ fn' = "expandS3ObjectLambdaAccessPointPublicAccessBlockConfiguration"
        /\ arg' = vConfig
        /\ ret' = expandS3ObjectLambdaAccessPointPublicAccessBlockConfiguration(vConfig)
        /\ UNCHANGED crudVars

ApplyFlattenVpc ==
    /\ fn = "none"
    /\ \E config \in VpcApiObjects :
        /\ fn' = "flattenS3ObjectLambdaAccessPointVpcConfiguration"
        /\ arg' = config
        /\ ret' = flattenS3ObjectLambdaAccessPointVpcConfiguration(config)
        /\ UNCHANGED crudVars

ApplyFlattenPublicAccessBlock ==
    /\ fn = "none"
    /\ \E config \in PublicAccessBlockApiObjects :
        /\ fn' = "flattenS3ObjectLambdaAccessPointPublicAccessBlockConfiguration"
        /\ arg' = config
        /\ ret' = flattenS3ObjectLambdaAccessPointPublicAccessBlockConfiguration(config)
        /\ UNCHANGED crudVars

\* Flatten applied to what Expand returned last (a panic returns nothing)
ApplyFlattenOfExpandedVpc ==
    /\ fn = "expandS3ObjectLambdaAccessPointVpcConfiguration"
    /\ ret # Panic
    /\ fn' = "FlattenOfExpandedVpc"
    /\ arg' = arg
    /\ ret' = flattenS3ObjectLambdaAccessPointVpcConfiguration(ret)
    /\ UNCHANGED crudVars

ApplyFlattenOfExpandedPublicAccessBlock ==
    /\ fn = "expandS3ObjectLambdaAccessPointPublicAccessBlockConfiguration"
    /\ ret # Panic
    /\ fn' = "FlattenOfExpandedPublicAccessBlock"
    /\ arg' = arg
    /\ ret' = flattenS3ObjectLambdaAccessPointPublicAccessBlockConfiguration(ret)
    /\ UNCHANGED crudVars

NextExpand ==
    \/ ApplyExpandConfiguration
    \/ ApplyExpandTransformationConfiguration
    \/ ApplyExpandContentTransformation
    \/ ApplyExpandAwsLambdaTransformation
    \/ ApplyExpandVpc
    \/ ApplyExpandPublicAccessBlock
    \/ ApplyFlattenVpc
    \/ ApplyFlattenPublicAccessBlock
    \/ ApplyFlattenOfExpandedVpc
    \/ ApplyFlattenOfExpandedPublicAccessBlock

SpecExpand == InitPure /\ [][NextExpand]_vars

(***************************************************************************)
(* Expand / flatten claims                                                 *)
(***************************************************************************)
IsBlockExpander ==
    fn \in {"expandS3ObjectLambdaAccessPointVpcConfiguration",
            "expandS3ObjectLambdaAccessPointPublicAccessBlockConfiguration"}

IsBlockFlattener ==
    fn \in {"flattenS3ObjectLambdaAccessPointVpcConfiguration",
            "flattenS3ObjectLambdaAccessPointPublicAccessBlockConfiguration"}

IsBlockRoundTrip ==
    fn \in {"FlattenOfExpandedVpc", "FlattenOfExpandedPublicAccessBlock"}

\* a flat block list holding one block with every key present
FullyPopulated(x) ==
    /\ ~x.isNil
    /\ Len(x.elems) = 1
    /\ x.elems[1] # Nil
    /\ \A k \in DOMAIN x.elems[1][1] : x.elems[1][1][k] # <<>>

\* C9: for the VPC and the public-access-block configuration, Expand of an
\* empty list or of a list whose first element is nil gives a nil structure,
\* Flatten of a nil structure gives an empty non-nil list, and Flatten of Expand
\* gives back x for every x that is empty or holds one fully populated block.
C9_FlattenExpandRoundTrip ==
    /\ (IsBlockExpander /\ (Len(arg.elems) = 0 \/ arg.elems[1] = Nil)) => ret = Nil
    /\ (IsBlockFlattener /\ arg = Nil) => ret = Slice(<<>>)
    /\ (IsBlockRoundTrip /\ Len(arg.elems) = 0) => ret = Slice(<<>>)
    /\ (IsBlockRoundTrip /\ FullyPopulated(arg)) => ret = arg

C9_Witness ==
    /\ fn = "FlattenOfExpandedPublicAccessBlock"
    /\ FullyPopulated(arg)
    /\ arg.elems[1][1].block_public_acls = <<TRUE>>
    /\ arg.elems[1][1].ignore_public_acls = <<FALSE>>
    /\ ret.elems[1][1].block_public_acls = <<TRUE>>

C9_WitnessNil ==
    /\ fn = "FlattenOfExpandedVpc"
    /\ arg = Slice(<<>>)
    /\ ret = Slice(<<>>)

AbsentOrEmptyStr(f) == f = <<>> \/ f[1] = <<>>
AbsentOrEmptySet(f) == f = <<>> \/ f[1] = {}
AbsentOrEmptyList(f) == f = <<>> \/ f[1] = <<>>

\* the request field for a string key: unset when absent or "", else the value
StrField(f) == IF AbsentOrEmptyStr(f) THEN Nil ELSE <<f[1]>>
SetField(f) == IF AbsentOrEmptySet(f) THEN Nil ELSE <<f[1]>>

\* a bool key: unset when absent, the value when true; false may go either way
BoolFieldOk(f, r) ==
    /\ f = <<>> => r = Nil
    /\ (f # <<>> /\ f[1]) => r = <<TRUE>>
    /\ (f # <<>> /\ ~f[1]) => r \in {Nil, <<FALSE>>}

\* an empty block: a list whose only element is nil
EmptyBlock(f) == f # <<>> /\ Len(f[1]) > 0 /\ f[1][1] = Nil

\* C10: every expander leaves a request field unset whenever the flat field is
\* absent or empty, never fails on absence, and sets the field to the 1:1
\* converted value whenever it is present, at every nesting level and for the
\* VPC and public-access-block expanders.
C10_ExpandAbsencePreserving ==
    /\ fn \in {"expandObjectLambdaConfiguration",
               "expandObjectLambdaTransformationConfiguration",
               "expandObjectLambdaContentTransformation",
               "expandAwsLambdaTransformation",
               "expandS3ObjectLambdaAccessPointVpcConfiguration",
               "expandS3ObjectLambdaAccessPointPublicAccessBlockConfiguration"}
          => ret # Panic
    /\ (fn = "expandAwsLambdaTransformation" /\ arg # Nil) =>
          /\ ret[1].FunctionArn = StrField(arg[1].function_arn)
          /\ ret[1].FunctionPayload = StrField(arg[1].function_payload)
    /\ (fn = "expandObjectLambdaContentTransformation" /\ arg # Nil) =>
          ret[1].AwsLambda =
              IF AbsentOrEmptyList(arg[1].aws_lambda) \/ EmptyBlock(arg[1].aws_lambda)
              THEN Nil
              ELSE expandAwsLambdaTransformation(arg[1].aws_lambda[1][1])
    /\ (fn = "expandObjectLambdaTransformationConfiguration" /\ arg # Nil) =>
          /\ ret[1].Actions = SetField(arg[1].actions)
          /\ ret[1].ContentTransformation =
                 IF \/ AbsentOrEmptyList(arg[1].content_transformation)
                    \/ EmptyBlock(arg[1].content_transformation)
                 THEN Nil
                 ELSE expandObjectLambdaContentTransformation(
                          arg[1].content_transformation[1][1])
    /\ (fn = "expandObjectLambdaConfiguration" /\ arg # Nil) =>
          /\ ret[1].AllowedFeatures = SetField(arg[1].allowed_features)
          /\ BoolFieldOk(arg[1].cloud_watch_metrics_enabled, ret[1].CloudWatchMetricsEnabled)
          /\ ret[1].SupportingAccessPoint = StrField(arg[1].supporting_access_point)
          /\ AbsentOrEmptyList(arg[1].transformation_configuration)
                 => ret[1].TransformationConfigurations = <<>>
    /\ (fn = "expandS3ObjectLambdaAccessPointVpcConfiguration" /\ ret # Nil) =>
          ret[1].VpcId = StrField(arg.elems[1][1].vpc_id)
    /\ (fn = "expandS3ObjectLambdaAccessPointPublicAccessBlockConfiguration" /\ ret # Nil) =>
          LET m == arg.elems[1][1]
          IN  /\ BoolFieldOk(m.block_public_acls, ret[1].BlockPublicAcls)
              /\ BoolFieldOk(m.block_public_policy, ret[1].BlockPublicPolicy)
              /\ BoolFieldOk(m.ignore_public_acls, ret[1].IgnorePublicAcls)
              /\ BoolFieldOk(m.restrict_public_buckets, ret[1].RestrictPublicBuckets)

(***************************************************************************)
(* CRUD handlers.  Each returns [d, err, calls]: the ResourceData it       *)
(* leaves, the error it returns and the calls it made.                     *)
(***************************************************************************)
errCodeNoSuchAccessPoint == "NoSuchAccessPoint"

\* tfresource.NotFound(err): err is a resource.NotFoundError
NotFound(err) == err # NoError /\ err[1] = "NotFoundError"

\* tfawserr.ErrCodeEquals(err, code)
ErrCodeEquals(err, code) == err # NoError /\ err[1] = code

\* fmt.Errorf("<msg>: %w", err)
Errorf(msg, err) == <<msg>> \o err

\* arn.ARN{...}.String(): arn:partition:service:region:account-id:resource
ARNString(a) ==
    <<"arn", ":">> \o a.Partition \o <<":">> \o a.Service \o <<":">> \o a.Region
        \o <<":">> \o a.AccountID \o <<":">> \o a.Resource

SetIdStep(id) == [op |-> "SetId", id |-> id]

Read_SoftDeletesNew(d0, m, out) ==
    LET p == ObjectLambdaAccessPointParseResourceID(d0.id)
        get == [op |-> "GetAccessPointConfigurationForObjectLambda",
                AccountId |-> p.accountID, Name |-> p.name, out |-> out]
    IN  IF p.err # NoError THEN [d |-> d0, err |-> p.err, calls |-> <<>>]
        ELSE IF NotFound(out.err)
        THEN [d |-> [d0 EXCEPT !.id = <<>>], err |-> NoError,
              calls |-> <<get, SetIdStep(<<>>)>>]
        ELSE IF out.err # NoError
        THEN [d |-> d0,
              err |-> Errorf("error reading S3 Object Lambda Access Point", out.err),
              calls |-> <<get>>]
        ELSE [d |-> [d0 EXCEPT !.attrs.account_id = p.accountID,
                               !.attrs.arn = ARNString([Partition |-> m.Partition,
                                                        Service |-> <<"s3-object-lambda">>,
                                                        Region |-> <<>>,
                                                        AccountID |-> p.accountID,
                                                        Resource |-> <<"accesspoint/">> \o p.name]),
                               !.attrs.name = p.name],
              err |-> NoError, calls |-> <<get>>]

\* the output of the get call is discarded: only its error is looked at
resourceObjectLambdaAccessPointRead(d0, m, out) ==
    LET p == ObjectLambdaAccessPointParseResourceID(d0.id)
        get == [op |-> "GetAccessPointConfigurationForObjectLambda",
                AccountId |-> p.accountID, Name |-> p.name, out |-> out]
    IN  IF p.err # NoError THEN [d |-> d0, err |-> p.err, calls |-> <<>>]
        ELSE IF ~d0.isNew /\ NotFound(out.err)
        THEN [d |-> [d0 EXCEPT !.id = <<>>], err |-> NoError,
              calls |-> <<get, SetIdStep(<<>>)>>]
        ELSE IF out.err # NoError
        THEN [d |-> d0,
              err |-> Errorf("error reading S3 Object Lambda Access Point", out.err),
              calls |-> <<get>>]
        ELSE [d |-> [d0 EXCEPT !.attrs.account_id = p.accountID,
                               !.attrs.arn = ARNString([Partition |-> m.Partition,
                                                        Service |-> <<"s3-object-lambda">>,
                                                        Region |-> <<>>,
                                                        AccountID |-> p.accountID,
                                                        Resource |-> <<"accesspoint/">> \o p.name]),
                               !.attrs.name = p.name],
              err |-> NoError, calls |-> <<get>>]

Create_SetIdFirst(d0, m, createErr, out) ==
    LET accountID == IF d0.attrs.account_id # <<>> THEN d0.attrs.account_id ELSE m.AccountID
        name == d0.attrs.name
        resourceID == ObjectLambdaAccessPointCreateResourceID(accountID, name)
        v == d0.attrs.configuration
        conf == IF Len(v) > 0 /\ v[1] # Nil THEN expandObjectLambdaConfiguration(v[1]) ELSE Nil
        create == [op |-> "CreateAccessPointForObjectLambda", AccountId |-> accountID,
                   Name |-> name, Configuration |-> conf, out |-> [err |-> createErr]]
        d1 == [d0 EXCEPT !.id = resourceID]
    IN  IF conf = Panic THEN [d |-> d0, err |-> <<"panic">>, calls |-> <<>>]
        ELSE IF createErr # NoError
        THEN [d |-> d1,
              err |-> Errorf("error creating S3 Object Lambda Access Point", createErr),
              calls |-> <<SetIdStep(resourceID), create>>]
        ELSE LET r == resourceObjectLambdaAccessPointRead(d1, m, out)
             IN  [d |-> r.d, err |-> r.err,
                  calls |-> <<SetIdStep(resourceID), create>> \o r.calls]

Create_ReadsAfterFailedCreate(d0, m, createErr, out) ==
    LET accountID == IF d0.attrs.account_id # <<>> THEN d0.attrs.account_id ELSE m.AccountID
        name == d0.attrs.name
        resourceID == ObjectLambdaAccessPointCreateResourceID(accountID, name)
        v == d0.attrs.configuration
        conf == IF Len(v) > 0 /\ v[1] # Nil THEN expandObjectLambdaConfiguration(v[1]) ELSE Nil
        create == [op |-> "CreateAccessPointForObjectLambda", AccountId |-> accountID,
                   Name |-> name, Configuration |-> conf, out |-> [err |-> createErr]]
        d1 == [d0 EXCEPT !.id = resourceID]
    IN  IF conf = Panic THEN [d |-> d0, err |-> <<"panic">>, calls |-> <<>>]
        ELSE LET r == resourceObjectLambdaAccessPointRead(d1, m, out)
             IN  [d |-> r.d, err |-> r.err,
                  calls |-> <<create, SetIdStep(resourceID)>> \o r.calls]

\* d.GetOk is ok for a non-zero value; a panic in Expand aborts the handler
resourceObjectLambdaAccessPointCreate(d0, m, createErr, out) ==
    LET accountID == IF d0.attrs.account_id # <<>> THEN d0.attrs.account_id ELSE m.AccountID
        name == d0.attrs.name
        resourceID == ObjectLambdaAccessPointCreateResourceID(accountID, name)
        v == d0.attrs.configuration
        conf == IF Len(v) > 0 /\ v[1] # Nil THEN expandObjectLambdaConfiguration(v[1]) ELSE Nil
        create == [op |-> "CreateAccessPointForObjectLambda", AccountId |-> accountID,
                   Name |-> name, Configuration |-> conf, out |-> [err |-> createErr]]
        d1 == [d0 EXCEPT !.id = resourceID]
    IN  IF conf = Panic THEN [d |-> d0, err |-> <<"panic">>, calls |-> <<>>]
        ELSE IF createErr # NoError
        THEN [d |-> d0,
              err |-> Errorf("error creating S3 Object Lambda Access Point", createErr),
              calls |-> <<create>>]
        ELSE LET r == resourceObjectLambdaAccessPointRead(d1, m, out)
             IN  [d |-> r.d, err |-> r.err,
                  calls |-> <<create, SetIdStep(resourceID)>> \o r.calls]

resourceObjectLambdaAccessPointUpdate(d0, m, out) ==
    resourceObjectLambdaAccessPointRead(d0, m, out)

Delete_SurfacesNotFound(d0, delErr) ==
    LET p == ObjectLambdaAccessPointParseResourceID(d0.id)
        del == [op |-> "DeleteAccessPointForObjectLambda",
                AccountId |-> p.accountID, Name |-> p.name, out |-> [err |-> delErr]]
    IN  IF p.err # NoError THEN [d |-> d0, err |-> p.err, calls |-> <<>>]
        ELSE IF delErr # NoError
        THEN [d |-> d0,
              err |-> Errorf("error deleting S3 Object Lambda Access Point", delErr),
              calls |-> <<del>>]
        ELSE [d |-> d0, err |-> NoError, calls |-> <<del>>]

resourceObjectLambdaAccessPointDelete(d0, delErr) ==
    LET p == ObjectLambdaAccessPointParseResourceID(d0.id)
        del == [op |-> "DeleteAccessPointForObjectLambda",
                AccountId |-> p.accountID, Name |-> p.name, out |-> [err |-> delErr]]
    IN  IF p.err # NoError THEN [d |-> d0, err |-> p.err, calls |-> <<>>]
        ELSE IF ErrCodeEquals(delErr, errCodeNoSuchAccessPoint)
        THEN [d |-> d0, err |-> NoError, calls |-> <<del>>]
        ELSE IF delErr # NoError
        THEN [d |-> d0,
              err |-> Errorf("error deleting S3 Object Lambda Access Point", delErr),
              calls |-> <<del>>]
        ELSE [d |-> d0, err |-> NoError, calls |-> <<del>>]

(***************************************************************************)
(* The resource schema: for every field, whether a change of it forces a   *)
(* new resource, and whether it is set by configuration.                   *)
(***************************************************************************)
Field(required, optional, computed, forceNew) ==
    [Required |-> required, Optional |-> optional, Computed |-> computed,
     ForceNew |-> forceNew]

Schema ==
    [account_id |-> Field(FALSE, TRUE, TRUE, TRUE),
     arn |-> Field(FALSE, FALSE, TRUE, FALSE),
     configuration |-> Field(TRUE, FALSE, FALSE, FALSE),
     allowed_features |-> Field(FALSE, TRUE, FALSE, FALSE),
     cloud_watch_metrics_enabled |-> Field(FALSE, TRUE, FALSE, FALSE),
     supporting_access_point |-> Field(TRUE, FALSE, FALSE, TRUE),
     transformation_configuration |-> Field(TRUE, FALSE, FALSE, FALSE),
     actions |-> Field(TRUE, FALSE, FALSE, FALSE),
     content_transformation |-> Field(TRUE, FALSE, FALSE, FALSE),
     aws_lambda |-> Field(FALSE, TRUE, FALSE, FALSE),
     function_arn |-> Field(TRUE, FALSE, FALSE, FALSE),
     function_payload |-> Field(FALSE, TRUE, FALSE, FALSE),
     name |-> Field(TRUE, FALSE, FALSE, TRUE)]

ConfigurableFields == {f \in DOMAIN Schema : Schema[f].Required \/ Schema[f].Optional}
UpdatableFields == {f \in ConfigurableFields : ~Schema[f].ForceNew}

(***************************************************************************)
(* Spec: the handlers as the framework calls them                          *)
(***************************************************************************)
MaxNameLen == 1      \* longest access point name configured
MaxImportLen == 3    \* longest identifier handed to import

Partitions == {<<"aws">>, <<"aws-cn">>}
ProviderAccountIDs == {<<"1", "1">>}
ConfiguredAccountIDs == {<<>>, <<"1">>}
Names == StrsUpTo(MaxNameLen) \ {<<>>}    \* name is Required
ImportIDs == StrsUpTo(MaxImportLen)

LambdaBlock == << <<[function_arn |-> << <<"a">> >>, function_payload |-> << <<>> >>]>> >>
ContentBlock(awsLambda) == << <<[aws_lambda |-> <<awsLambda>>]>> >>
ConfigurationBlock(features, metrics, content) ==
    << <<[allowed_features |-> <<features>>,
          cloud_watch_metrics_enabled |-> <<metrics>>,
          supporting_access_point |-> << <<"a">> >>,
          transformation_configuration |->
              << << <<[actions |-> <<{"GetObject"}>>,
                       content_transformation |-> <<content>>]>> >> >>]>> >>

\* configurations that pass schema validation; in the last, the block
\* content_transformation {} is empty, which the framework hands over as [nil]
ValidConfigurations ==
    {ConfigurationBlock({"GetObject-Range"}, FALSE, ContentBlock(LambdaBlock)),
     ConfigurationBlock({}, TRUE, ContentBlock(LambdaBlock))}
CrudConfigurations == ValidConfigurations \cup {ConfigurationBlock({}, FALSE, <<Nil>>)}

RemoteConfigurations == {expandObjectLambdaConfiguration(c[1]) : c \in ValidConfigurations}

CreateErrors == {NoError, <<"InvalidRequest">>}
GetOutputs ==
    {[err |-> NoError, Configuration |-> c] : c \in RemoteConfigurations}
        \cup {[err |-> <<"NotFoundError">>, Configuration |-> Nil],
              [err |-> <<"InternalError">>, Configuration |-> Nil]}
DeleteErrors == {NoError, <<errCodeNoSuchAccessPoint>>, <<"AccessDenied">>}

Init ==
    /\ fn = "none"
    /\ arg = <<>>
    /\ ret = <<>>
    /\ meta \in [AccountID : ProviderAccountIDs, Partition : Partitions]
    /\ pre = NoResourceData
    /\ d = NoResourceData
    /\ lastOp = "none"
    /\ result = NoError
    /\ calls = <<>>

Returned(op, d0, r) ==
    /\ pre' = d0
    /\ d' = r.d
    /\ lastOp' = op
    /\ result' = r.err
    /\ calls' = r.calls
    /\ UNCHANGED <<meta, fn, arg, ret>>

\* Create runs on a resource without identifier, marked new, holding the plan
Create ==
    /\ d.id = <<>>
    /\ \E account_id \in ConfiguredAccountIDs, name \in Names,
          conf \in CrudConfigurations, createErr \in CreateErrors, out \in GetOutputs :
          LET d0 == [id |-> <<>>, isNew |-> TRUE,
                     attrs |-> [account_id |-> account_id, arn |-> <<>>,
                                name |-> name, configuration |-> conf]]
          IN  Returned("Create", d0,
                       resourceObjectLambdaAccessPointCreate(d0, meta, createErr, out))

Read ==
    /\ d.id # <<>>
    /\ \E out \in GetOutputs :
          LET d0 == [d EXCEPT !.isNew = FALSE]
          IN  Returned("Read", d0, resourceObjectLambdaAccessPointRead(d0, meta, out))

\* Update runs when the plan changes fields that do not force a new resource
Update ==
    /\ d.id # <<>>
    /\ d.attrs.configuration # <<>>
    /\ UpdatableFields # {}
    /\ \E conf \in CrudConfigurations, out \in GetOutputs :
          /\ conf # d.attrs.configuration
          /\ LET d0 == [d EXCEPT !.isNew = FALSE, !.attrs.configuration = conf]
             IN  Returned("Update", d0, resourceObjectLambdaAccessPointUpdate(d0, meta, out))

Delete ==
    /\ d.id # <<>>
    /\ \E delErr \in DeleteErrors :
          LET d0 == [d EXCEPT !.isNew = FALSE]
          IN  Returned("Delete", d0, resourceObjectLambdaAccessPointDelete(d0, delErr))

\* schema.ImportStatePassthrough: the identifier is whatever the user typed
Import ==
    /\ d.id = <<>>
    /\ \E id \in ImportIDs \ {<<>>} :
          Returned("Import", NoResourceData,
                   [d |-> [NoResourceData EXCEPT !.id = id], err |-> NoError, calls |-> <<>>])

\* after a successful Delete the framework drops the resource from state
RemoveFromState ==
    /\ lastOp = "Delete"
    /\ result = NoError
    /\ Returned("RemoveFromState", d, [d |-> NoResourceData, err |-> NoError, calls |-> <<>>])

Next == Create \/ Read \/ Update \/ Delete \/ Import \/ RemoveFromState

Spec == Init /\ [][Next]_vars

(***************************************************************************)
(* CRUD claims                                                             *)
(***************************************************************************)
CreateCall == "CreateAccessPointForObjectLambda"
GetCall == "GetAccessPointConfigurationForObjectLambda"
DeleteCall == "DeleteAccessPointForObjectLambda"
ExternalCalls == {CreateCall, GetCall, DeleteCall}

Steps(op) == {i \in DOMAIN calls : calls[i].op = op}
Issued(op) == Steps(op) # {}
Succeeded(op) == \E i \in Steps(op) : calls[i].out.err = NoError
Failed(op) == \E i \in Steps(op) : calls[i].out.err # NoError
GetReportsNotFound ==
    \E i \in Steps(GetCall) :
        calls[i].out.err # NoError /\ calls[i].out.err[1] = "NotFoundError"

\* the Read code ran: as the Read or Update handler, or at the end of Create
\* once the identifier had been assigned
ReadRan == lastOp \in {"Read", "Update"} \/ (lastOp = "Create" /\ Issued("SetId"))

\* the identifier Read was given
ReadId ==
    IF lastOp = "Create" THEN calls[CHOOSE i \in Steps("SetId") : TRUE].id ELSE pre.id

\* C3: given a well-formed identifier, Read clears the identifier and returns
\* success if and only if the get call reports not-found and the resource is
\* not new; on not-found for a new resource (the Read that Create triggers) it
\* returns an error and the identifier stays set.
C3_ReadSoftDeletesOnlyKnownResources ==
    (ReadRan /\ WellFormedID(ReadId)) =>
        /\ Issued(GetCall)
        /\ (d.id = <<>> /\ result = NoError) <=> (GetReportsNotFound /\ ~pre.isNew)
        /\ (GetReportsNotFound /\ pre.isNew) => (result # NoError /\ d.id = ReadId)

C3_Witness ==
    /\ lastOp = "Read"
    /\ pre.id = <<"1", ":", "a">>
    /\ GetReportsNotFound
    /\ d.id = <<>>
    /\ result = NoError

C3_WitnessNew ==
    /\ lastOp = "Create"
    /\ GetReportsNotFound
    /\ result # NoError
    /\ d.id = <<"1", "1", ":", "a">>

\* C4: given a well-formed identifier, Delete returns success when the delete
\* call succeeds and when it fails with the no-such-access-point code, and an
\* error for every other error of the delete call.
C4_DeleteTreatsNotFoundAsDeleted ==
    (lastOp = "Delete" /\ WellFormedID(pre.id)) =>
        /\ Issued(DeleteCall)
        /\ \A i \in Steps(DeleteCall) :
              (result = NoError) <=>
                  \/ calls[i].out.err = NoError
                  \/ calls[i].out.err = <<"NoSuchAccessPoint">>

C4_Witness ==
    /\ lastOp = "Delete"
    /\ WellFormedID(pre.id)
    /\ \E i \in Steps(DeleteCall) : calls[i].out.err = <<"NoSuchAccessPoint">>
    /\ result = NoError

\* C5: when the create call and the following get call both succeed, Create
\* ends with the identifier "<account>:<name>" (<account> the configured
\* account_id if set, else the provider's account) and the attributes
\* account_id, name and arn built from them; the identifier is assigned only
\* after the create call has succeeded and before the get call is issued.
C5_CreateAssignsIdThenReads ==
    /\ (lastOp = "Create" /\ Succeeded(CreateCall) /\ Succeeded(GetCall)) =>
          LET account == IF pre.attrs.account_id # <<>> THEN pre.attrs.account_id
                         ELSE meta.AccountID
              name == pre.attrs.name
          IN  /\ result = NoError
              /\ d.id = account \o <<":">> \o name
              /\ d.attrs.account_id = account
              /\ d.attrs.name = name
              /\ d.attrs.arn = <<"arn", ":">> \o meta.Partition
                                   \o <<":", "s3-object-lambda", ":", ":">> \o account
                                   \o <<":", "accesspoint/">> \o name
              /\ \E i \in Steps(CreateCall), j \in Steps("SetId"), k \in Steps(GetCall) :
                    i < j /\ j < k /\ calls[j].id = d.id
    /\ lastOp = "Create" =>
          \A j \in Steps("SetId") :
              \E i \in Steps(CreateCall) : i < j /\ calls[i].out.err = NoError

C5_Witness ==
    /\ lastOp = "Create"
    /\ pre.attrs.account_id = <<>>
    /\ Succeeded(CreateCall)
    /\ Succeeded(GetCall)
    /\ d.id = <<"1", "1", ":", "a">>
    /\ d.attrs.arn # <<>>

\* the not-found cases that count as deletion, not as failure
SoftDeletion(i) ==
    \/ /\ calls[i].op = GetCall
       /\ calls[i].out.err[1] = "NotFoundError"
       /\ ~pre.isNew
    \/ /\ calls[i].op = DeleteCall
       /\ calls[i].out.err[1] = "NoSuchAccessPoint"

\* C6: in Create, Read and Delete every error of an external call that is no
\* not-found soft-deletion case makes the operation return an error, no
\* external call is issued twice in one operation, and a failed create call
\* leaves the identifier unassigned and issues no get call.
C6_ErrorsSurfaceWithoutRetry ==
    lastOp \in {"Create", "Read", "Update", "Delete"} =>
        /\ \A i \in DOMAIN calls :
              (/\ calls[i].op \in ExternalCalls
               /\ calls[i].out.err # NoError
               /\ ~SoftDeletion(i)) => result # NoError
        /\ \A i, j \in DOMAIN calls :
              (i # j /\ calls[i].op \in ExternalCalls) => calls[i].op # calls[j].op
        /\ Failed(CreateCall) => (d.id = <<>> /\ ~Issued(GetCall) /\ ~Issued("SetId"))

C6_Witness ==
    /\ lastOp = "Create"
    /\ Failed(CreateCall)
    /\ result # NoError
    /\ d.id = <<>>

\* C7: a successful Read populates every field of the schema from the remote
\* object: account_id, arn, name and the configuration block, as the
\* flattening of the configuration the get call returned.
C7_ReadPopulatesEveryField ==
    (lastOp = "Read" /\ result = NoError /\ Succeeded(GetCall)) =>
        /\ d.attrs.account_id # <<>>
        /\ d.attrs.arn # <<>>
        /\ d.attrs.name # <<>>
        /\ \A i \in Steps(GetCall) :
              d.attrs.configuration =
                  flattenObjectLambdaConfiguration(calls[i].out.Configuration)

\* C8: Update issues no mutating external call and leaves the same result,
\* identifier and attributes as Read does from the same state and get
\* response; and it only ever handles resources all of whose configurable
\* fields are immutable after creation (ForceNew).
C8_UpdateIsReadOfImmutableResource ==
    lastOp = "Update" =>
        /\ \A i \in DOMAIN calls : calls[i].op \in {GetCall, "SetId"}
        /\ \A i \in Steps(GetCall) :
              LET r == resourceObjectLambdaAccessPointRead(pre, meta, calls[i].out)
              IN  d = r.d /\ result = r.err /\ calls = r.calls
        /\ \A f \in ConfigurableFields : Schema[f].ForceNew
====
